---- MODULE Spec2Model ----
(***************************************************************************)
(* Model of node/modules/minermanage/minermanage.go: the MinerManager, an  *)
(* in-memory slice of MinerInfo records mirrored as one JSON blob in a     *)
(* datastore under the key miner-actors, with the default address under    *)
(* the key default-actor.                                                  *)
(***************************************************************************)
EXTENDS Integers, Sequences, FiniteSets, TLC

\* Number of distinct miner addresses the callers use.
NumAddr == 3
\* Number of Put/Set/Remove calls made on one MinerManager.
MaxCalls == 2
\* Number of calls made on one MinerManager when Default and SetDefault are
\* among them.
MaxDefaultCalls == 3
\* Number of concurrent callers, each making one call.
NumProcs == 2

VARIABLES
    miners,  \* m.miners, a Go slice: [isNil, elems]
    da,      \* m.da, the datastore: key -> <<>> (ErrNotFound) or <<value>>
    calls,   \* number of calls made so far
    last,    \* the last call: its arguments, what it returned, the state before it
    failed,  \* whether some call so far returned an error
    resolved, \* <<a>> once Default has resolved an unset default to a, <<>> again
              \* after a SetDefault call or a Default whose store read failed
    lk,      \* m.lk: 0 when unlocked, else the caller holding it
    pc,      \* position of each concurrent caller in its call
    loc      \* each concurrent caller's call: method, argument, locals, result

vars == <<miners, da, calls, last, failed, resolved, lk, pc, loc>>

\* What the calls made one after another record.
seqVars == <<calls, last, failed, resolved>>

\* What the concurrent callers add.
concVars == <<lk, pc, loc>>

Procs == 1..NumProcs

actorKey == "miner-actors"
defaultKey == "default-actor"

\* address.Undef, the zero Address; the other addresses are ID addresses.
Undef == 0
Addrs == 1..NumAddr

\* Address.String(): "<empty>" for Undef, else network prefix, protocol, payload.
AddrString(a) == IF a = Undef THEN <<"<empty>">> ELSE <<"f", 0, a>>

\* Address.UnmarshalJSON: the address a canonical string decodes to.
AddrFromString(s) == IF s = <<"<empty>">> THEN Undef ELSE s[3]

\* dtypes.MinerInfo values the callers pass, for address a.
MinerInfo(a, id, name, sl, st, wl, wt) ==
    [Addr |-> a, Id |-> id, Name |-> name,
     Sealer |-> [ListenAPI |-> sl, Token |-> st],
     Wallet |-> [ListenAPI |-> wl, Token |-> wt]]

InfoAll(a) == MinerInfo(a, "id1", "name1", "sl1", "st1", "wl1", "wt1")
InfoSealer(a) == MinerInfo(a, "id2", "name2", "sl2", "st2", "", "")
InfoWallet(a) == MinerInfo(a, "", "", "", "", "wl2", "wt2")

Infos == UNION {{InfoAll(a), InfoSealer(a), InfoWallet(a)} : a \in Addrs}

\* []address.Address arguments of Remove: the lists of at most two addresses.
AddrLists ==
    {<<>>} \cup {<<a>> : a \in Addrs}
           \cup {<<p[1], p[2]>> : p \in {q \in Addrs \X Addrs : q[1] < q[2]}}

----------------------------------------------------------------------------
\* Go slices and encoding/json

\* var miners []dtypes.MinerInfo
NilSlice == [isNil |-> TRUE, elems |-> <<>>]

\* append(s, x): never nil
GoAppend(s, x) == [isNil |-> FALSE, elems |-> Append(s.elems, x)]

MarshalInfo(mi) ==
    [addr |-> AddrString(mi.Addr), id |-> mi.Id, name |-> mi.Name,
     sealer |-> [listenAPI |-> mi.Sealer.ListenAPI, token |-> mi.Sealer.Token],
     wallet |-> [listenAPI |-> mi.Wallet.ListenAPI, token |-> mi.Wallet.Token]]

UnmarshalInfo(j) ==
    MinerInfo(AddrFromString(j.addr), j.id, j.name,
              j.sealer.listenAPI, j.sealer.token,
              j.wallet.listenAPI, j.wallet.token)

\* json.Marshal of a []MinerInfo: null for a nil slice, else an array.
Marshal(s) ==
    IF s.isNil THEN [null |-> TRUE, items |-> <<>>]
    ELSE [null |-> FALSE,
          items |-> [i \in 1..Len(s.elems) |-> MarshalInfo(s.elems[i])]]

\* json.Unmarshal into a nil []MinerInfo: null leaves it nil.
Unmarshal(j) ==
    IF j.null THEN NilSlice
    ELSE [isNil |-> FALSE,
          elems |-> [i \in 1..Len(j.items) |-> UnmarshalInfo(j.items[i])]]

----------------------------------------------------------------------------
\* The datastore

dsGet(d, key) == d[key]

dsPut(d, key, value, ok) == IF ok THEN [d EXCEPT ![key] = <<value>>] ELSE d

\* The record list stored under miner-actors, as a fresh NewMinerManger reads it.
NewMinerManger(d) ==
    LET addrBytes == dsGet(d, actorKey)
    IN IF addrBytes = <<>> THEN NilSlice ELSE Unmarshal(addrBytes[1])

----------------------------------------------------------------------------
\* The operations, as functions of the state before the call

Result(m, d, err, wrote) == [miners |-> m, da |-> d, err |-> err, wrote |-> wrote]

\* Has that finds nothing.
HasNever(m, addr) == FALSE

Has(m, addr) ==
    \E i \in 1..Len(m.elems) : AddrString(m.elems[i].Addr) = AddrString(addr)

\* Index of the first record with this address, 0 when there is none.
IndexOf(m, addr) ==
    IF Has(m, addr)
    THEN CHOOSE i \in 1..Len(m.elems) :
            /\ AddrString(m.elems[i].Addr) = AddrString(addr)
            /\ \A j \in 1..(i - 1) : AddrString(m.elems[j].Addr) # AddrString(addr)
    ELSE 0

Get(m, addr) == IF Has(m, addr) THEN <<m.elems[IndexOf(m, addr)]>> ELSE <<>>

List(m) == m.elems

Count(m) == Len(m.elems)

\* Put without the Has check.
PutAlways(m, d, miner, ok) ==
    LET newMiner == GoAppend(m, miner)
        addrBytes == Marshal(newMiner)
    IN IF ok THEN Result(newMiner, dsPut(d, actorKey, addrBytes, ok), "nil", TRUE)
       ELSE Result(m, dsPut(d, actorKey, addrBytes, ok), "err", TRUE)

\* Put that assigns m.miners before the write.
PutEager(m, d, miner, ok) ==
    IF Has(m, miner.Addr) THEN Result(m, d, "nil", FALSE)
    ELSE LET newMiner == GoAppend(m, miner)
             addrBytes == Marshal(newMiner)
         IN Result(newMiner, dsPut(d, actorKey, addrBytes, ok),
                   IF ok THEN "nil" ELSE "err", TRUE)

Put(m, d, miner, ok) ==
    IF Has(m, miner.Addr) THEN Result(m, d, "nil", FALSE)
    ELSE LET newMiner == GoAppend(m, miner)
             addrBytes == Marshal(newMiner)
         IN IF ok THEN Result(newMiner, dsPut(d, actorKey, addrBytes, ok), "nil", TRUE)
            ELSE Result(m, dsPut(d, actorKey, addrBytes, ok), "err", TRUE)

\* The field updates with the emptiness test of the wallet token left out.
SetFieldsErase(old, miner) ==
    [old EXCEPT
       !.Sealer.ListenAPI =
           IF miner.Sealer.ListenAPI # "" /\ miner.Sealer.ListenAPI # @
           THEN miner.Sealer.ListenAPI ELSE @,
       !.Sealer.Token =
           IF miner.Sealer.Token # "" /\ miner.Sealer.Token # @
           THEN miner.Sealer.Token ELSE @,
       !.Wallet.ListenAPI =
           IF miner.Wallet.ListenAPI # "" /\ miner.Wallet.ListenAPI # @
           THEN miner.Wallet.ListenAPI ELSE @,
       !.Wallet.Token =
           IF miner.Wallet.Token # @ THEN miner.Wallet.Token ELSE @]

\* The four field updates of Set on the record found.
SetFields(old, miner) ==
    [old EXCEPT
       !.Sealer.ListenAPI =
           IF miner.Sealer.ListenAPI # "" /\ miner.Sealer.ListenAPI # @
           THEN miner.Sealer.ListenAPI ELSE @,
       !.Sealer.Token =
           IF miner.Sealer.Token # "" /\ miner.Sealer.Token # @
           THEN miner.Sealer.Token ELSE @,
       !.Wallet.ListenAPI =
           IF miner.Wallet.ListenAPI # "" /\ miner.Wallet.ListenAPI # @
           THEN miner.Wallet.ListenAPI ELSE @,
       !.Wallet.Token =
           IF miner.Wallet.Token # "" /\ miner.Wallet.Token # @
           THEN miner.Wallet.Token ELSE @]

\* Set that marshals the list before merging into it.
SetStale(m, d, miner, ok) ==
    LET k == IndexOf(m, miner.Addr)
    IN IF k = 0 THEN Result(m, d, "nil", FALSE)
       ELSE LET merged == [m EXCEPT !.elems[k] = SetFields(@, miner)]
                addrBytes == Marshal(m)
            IN Result(merged, dsPut(d, actorKey, addrBytes, ok),
                      IF ok THEN "nil" ELSE "err", TRUE)

\* Set that writes the list also when no record has the address.
SetAlwaysWrite(m, d, miner, ok) ==
    LET k == IndexOf(m, miner.Addr)
        merged == IF k = 0 THEN m ELSE [m EXCEPT !.elems[k] = SetFields(@, miner)]
        addrBytes == Marshal(merged)
    IN Result(merged, dsPut(d, actorKey, addrBytes, ok),
              IF ok THEN "nil" ELSE "err", TRUE)

\* Set that restores the record when the write fails.
SetRollback(m, d, miner, ok) ==
    LET k == IndexOf(m, miner.Addr)
    IN IF k = 0 THEN Result(m, d, "nil", FALSE)
       ELSE LET merged == [m EXCEPT !.elems[k] = SetFields(@, miner)]
                addrBytes == Marshal(merged)
            IN Result(IF ok THEN merged ELSE m, dsPut(d, actorKey, addrBytes, ok),
                      IF ok THEN "nil" ELSE "err", TRUE)

Set(m, d, miner, ok) ==
    LET k == IndexOf(m, miner.Addr)
    IN IF k = 0 THEN Result(m, d, "nil", FALSE)
       ELSE LET merged == [m EXCEPT !.elems[k] = SetFields(@, miner)]
                addrBytes == Marshal(merged)
            IN Result(merged, dsPut(d, actorKey, addrBytes, ok),
                      IF ok THEN "nil" ELSE "err", TRUE)

findAddress(addr, addrs) ==
    \E i \in 1..Len(addrs) : AddrString(addrs[i]) # AddrString(addr)

\* Remove that assigns m.miners before the write.
RemoveEager(m, d, addrs, ok) ==
    LET kept == SelectSeq(m.elems, LAMBDA miner : ~findAddress(miner.Addr, addrs))
        newMiners == IF kept = <<>> THEN NilSlice
                     ELSE [isNil |-> FALSE, elems |-> kept]
        addrBytes == Marshal(newMiners)
    IN Result(newMiners, dsPut(d, actorKey, addrBytes, ok),
              IF ok THEN "nil" ELSE "err", TRUE)

\* Remove that marshals m.miners where newMiners is meant.
RemoveStale(m, d, addrs, ok) ==
    LET kept == SelectSeq(m.elems, LAMBDA miner : ~findAddress(miner.Addr, addrs))
        newMiners == IF kept = <<>> THEN NilSlice
                     ELSE [isNil |-> FALSE, elems |-> kept]
        addrBytes == Marshal(m)
    IN IF ok THEN Result(newMiners, dsPut(d, actorKey, addrBytes, ok), "nil", TRUE)
       ELSE Result(m, dsPut(d, actorKey, addrBytes, ok), "err", TRUE)

Remove(m, d, addrs, ok) ==
    LET kept == SelectSeq(m.elems, LAMBDA miner : ~findAddress(miner.Addr, addrs))
        newMiners == IF kept = <<>> THEN NilSlice
                     ELSE [isNil |-> FALSE, elems |-> kept]
        addrBytes == Marshal(newMiners)
    IN IF ok THEN Result(newMiners, dsPut(d, actorKey, addrBytes, ok), "nil", TRUE)
       ELSE Result(m, dsPut(d, actorKey, addrBytes, ok), "err", TRUE)

\* Address.Bytes(): protocol byte and payload; empty for Undef.
AddrBytes(a) == IF a = Undef THEN <<>> ELSE <<0, a>>

\* address.NewFromBytes: Undef for no bytes.
AddrFromBytes(b) == IF b = <<>> THEN Undef ELSE b[2]

DefaultResult(ret, d, err, wrote) ==
    [ret |-> ret, da |-> d, err |-> err, wrote |-> wrote]

\* SetDefault that keeps a default already stored.
SetDefaultIfUnset(d, addr, ok) ==
    IF dsGet(d, defaultKey) # <<>> THEN DefaultResult(addr, d, "nil", FALSE)
    ELSE DefaultResult(addr, dsPut(d, defaultKey, AddrBytes(addr), ok),
                       IF ok THEN "nil" ELSE "err", TRUE)

SetDefault(d, addr, ok) ==
    DefaultResult(addr, dsPut(d, defaultKey, AddrBytes(addr), ok),
                  IF ok THEN "nil" ELSE "err", TRUE)

\* Default that returns the first address without storing it.
DefaultNoPersist(m, d, getOK, putOK) ==
    LET bytes == dsGet(d, defaultKey)
    IN IF ~getOK \/ bytes = <<>>
       THEN IF Len(m.elems) = 0 THEN DefaultResult(Undef, d, "ErrNoDefault", FALSE)
            ELSE DefaultResult(m.elems[1].Addr, d, "nil", FALSE)
       ELSE DefaultResult(AddrFromBytes(bytes[1]), d, "nil", FALSE)

\* Default that reports no error on an empty list.
DefaultEmptyNil(m, d, getOK, putOK) ==
    LET bytes == dsGet(d, defaultKey)
    IN IF ~getOK \/ bytes = <<>>
       THEN IF Len(m.elems) = 0 THEN DefaultResult(Undef, d, "nil", FALSE)
            ELSE LET set == SetDefault(d, m.elems[1].Addr, putOK)
                 IN IF set.err # "nil" THEN DefaultResult(Undef, set.da, set.err, TRUE)
                    ELSE DefaultResult(m.elems[1].Addr, set.da, "nil", TRUE)
       ELSE DefaultResult(AddrFromBytes(bytes[1]), d, "nil", FALSE)

\* Default, called with no other call running. getOK: whether the store read
\* works; a read that fails and a key that is absent both give err # nil.
Default(m, d, getOK, putOK) ==
    LET bytes == dsGet(d, defaultKey)
    IN IF ~getOK \/ bytes = <<>>
       THEN IF Len(m.elems) = 0 THEN DefaultResult(Undef, d, "ErrNoDefault", FALSE)
            ELSE LET set == SetDefault(d, m.elems[1].Addr, putOK)
                 IN IF set.err # "nil" THEN DefaultResult(Undef, set.da, set.err, TRUE)
                    ELSE DefaultResult(m.elems[1].Addr, set.da, "nil", TRUE)
       ELSE DefaultResult(AddrFromBytes(bytes[1]), d, "nil", FALSE)

----------------------------------------------------------------------------
\* The state machine

\* Stores a MinerManager is opened on: no blob, null, [], or n records.
StoredList(n) ==
    [i \in 1..n |->
        MarshalInfo(IF i % 3 = 1 THEN InfoAll(i)
                    ELSE IF i % 3 = 2 THEN InfoSealer(i) ELSE InfoWallet(i))]

InitBlobs ==
    {<<>>, <<[null |-> TRUE, items |-> <<>>]>>}
        \cup {<<[null |-> FALSE, items |-> StoredList(n)]>> : n \in 0..NumAddr}

Call(op, arg, ok, r) ==
    [op |-> op, arg |-> arg, putOK |-> ok, err |-> r.err, wrote |-> r.wrote,
     pre |-> miners, preDa |-> da]

\* A caller's record: method, argument, result and the locals in use.
Local(op, arg) ==
    [op |-> op, arg |-> arg, err |-> "nil", ret |-> <<>>, putOK |-> TRUE,
     newMiners |-> NilSlice, addrBytes |-> <<>>]

Init ==
    /\ \E blob \in InitBlobs :
          da = [key \in {actorKey, defaultKey} |->
                   IF key = actorKey THEN blob ELSE <<>>]
    /\ miners = NewMinerManger(da)
    /\ calls = 0
    /\ last = [op |-> "NewMinerManger", arg |-> <<>>, putOK |-> TRUE, err |-> "nil",
               wrote |-> FALSE, pre |-> NilSlice, preDa |-> da]
    /\ failed = FALSE
    /\ resolved = <<>>
    /\ lk = 0
    /\ pc = [p \in Procs |-> "idle"]
    /\ loc = [p \in Procs |-> Local("none", <<>>)]

Apply(op, arg, ok, r) ==
    /\ calls < MaxCalls
    /\ miners' = r.miners
    /\ da' = r.da
    /\ calls' = calls + 1
    /\ last' = Call(op, arg, ok, r)
    /\ failed' = (failed \/ r.err # "nil")
    /\ UNCHANGED <<resolved, concVars>>

\* Put when the address is registered: the datastore is not called.
PutExisting ==
    \E miner \in Infos :
        /\ Has(miners, miner.Addr)
        /\ Apply("Put", miner, TRUE, Put(miners, da, miner, TRUE))

PutNew ==
    \E miner \in Infos, ok \in BOOLEAN :
        /\ ~Has(miners, miner.Addr)
        /\ Apply("Put", miner, ok, Put(miners, da, miner, ok))

\* Set when no record has the address: the datastore is not called.
SetMissing ==
    \E miner \in Infos :
        /\ ~Has(miners, miner.Addr)
        /\ Apply("Set", miner, TRUE, Set(miners, da, miner, TRUE))

SetFound ==
    \E miner \in Infos, ok \in BOOLEAN :
        /\ Has(miners, miner.Addr)
        /\ Apply("Set", miner, ok, Set(miners, da, miner, ok))

RemoveCall ==
    \E addrs \in AddrLists, ok \in BOOLEAN :
        /\ Len(addrs) <= NumAddr
        /\ Apply("Remove", addrs, ok, Remove(miners, da, addrs, ok))

Next == PutExisting \/ PutNew \/ SetMissing \/ SetFound \/ RemoveCall

Spec == Init /\ [][Next]_vars

----------------------------------------------------------------------------
\* The state machine with SetDefault and Default among the calls

DefaultCallRecord(op, arg, getOK, putOK, r) ==
    [op |-> op, arg |-> arg, getOK |-> getOK, putOK |-> putOK, err |-> r.err,
     wrote |-> r.wrote, ret |-> r.ret, pre |-> miners, preDa |-> da,
     prev |-> [op |-> last.op, arg |-> last.arg, err |-> last.err]]

ApplyDefault(op, arg, getOK, putOK, r) ==
    /\ calls < MaxDefaultCalls
    /\ da' = r.da
    /\ calls' = calls + 1
    /\ last' = DefaultCallRecord(op, arg, getOK, putOK, r)
    /\ failed' = (failed \/ r.err # "nil")
    /\ UNCHANGED <<miners, concVars>>

SetDefaultCall ==
    \E addr \in Addrs \cup {Undef}, ok \in BOOLEAN :
        /\ ApplyDefault("SetDefault", addr, TRUE, ok, SetDefault(da, addr, ok))
        /\ resolved' = <<>>

\* Default when the store read returns the address stored.
DefaultStored ==
    /\ dsGet(da, defaultKey) # <<>>
    /\ ApplyDefault("Default", <<>>, TRUE, TRUE, Default(miners, da, TRUE, TRUE))
    /\ UNCHANGED resolved

\* Default when the key is absent.
DefaultUnset ==
    \E putOK \in BOOLEAN :
        LET r == Default(miners, da, TRUE, putOK)
        IN /\ dsGet(da, defaultKey) = <<>>
           /\ r.wrote \/ putOK
           /\ ApplyDefault("Default", <<>>, TRUE, putOK, r)
           /\ resolved' = IF r.wrote /\ r.err = "nil" THEN <<r.ret>> ELSE resolved

\* Default when the store read fails though an address is stored.
DefaultReadFails ==
    \E putOK \in BOOLEAN :
        LET r == Default(miners, da, FALSE, putOK)
        IN /\ dsGet(da, defaultKey) # <<>>
           /\ r.wrote \/ putOK
           /\ ApplyDefault("Default", <<>>, FALSE, putOK, r)
           /\ resolved' = <<>>

\* The calls that change the list, one record or one address each, their
\* store writes succeeding.
PutOne ==
    \E a \in Addrs :
        /\ calls < MaxCalls
        /\ Apply("Put", InfoAll(a), TRUE, Put(miners, da, InfoAll(a), TRUE))

SetOne ==
    \E a \in Addrs :
        /\ calls < MaxCalls
        /\ Apply("Set", InfoSealer(a), TRUE, Set(miners, da, InfoSealer(a), TRUE))

RemoveOne ==
    \E addrs \in {l \in AddrLists : Len(l) <= 1} :
        /\ calls < MaxCalls
        /\ Apply("Remove", addrs, TRUE, Remove(miners, da, addrs, TRUE))

NextDefault ==
    \/ PutOne
    \/ SetOne
    \/ RemoveOne
    \/ SetDefaultCall
    \/ DefaultStored
    \/ DefaultUnset
    \/ DefaultReadFails

SpecDefault == Init /\ [][NextDefault]_vars

----------------------------------------------------------------------------
\* Concurrent callers: each call as the steps other callers can interleave with

\* m.lk.Lock() returns when the mutex is unlocked.
CanLockAlways(l) == TRUE

CanLock(l) == l = 0

\* Whether Has itself calls m.lk.Lock().
HasLocksMutex == TRUE

HasLocks == FALSE

Goto(p, label, l) ==
    /\ pc' = [pc EXCEPT ![p] = label]
    /\ loc' = [loc EXCEPT ![p] = l]

\* A method that begins with m.lk.Lock() is called; the caller waits for m.lk.
Enter(p) ==
    /\ pc[p] = "idle"
    /\ pc' = [pc EXCEPT ![p] = "lock"]
    /\ UNCHANGED <<miners, da, seqVars, lk, loc>>

\* m.lk.Lock() returns to a caller of method op with argument arg.
Acquire(p, op, arg, label) ==
    /\ pc[p] = "lock"
    /\ CanLock(lk)
    /\ lk' = p
    /\ Goto(p, label, Local(op, arg))
    /\ UNCHANGED <<miners, da, seqVars>>

\* The deferred m.lk.Unlock() and the return; the locals are dropped.
Unlock(p) ==
    /\ pc[p] = "unlock"
    /\ lk' = 0
    /\ Goto(p, "done", [loc[p] EXCEPT !.newMiners = NilSlice, !.addrBytes = <<>>])
    /\ UNCHANGED <<miners, da, seqVars>>

PutLock(p) == \E a \in Addrs : Acquire(p, "Put", InfoAll(a), "put_has")

\* if m.Has(miner.Addr) { return nil }; newMiner, addrBytes
PutHas(p) ==
    /\ pc[p] = "put_has"
    /\ HasLocks => CanLock(lk)
    /\ IF Has(miners, loc[p].arg.Addr)
       THEN Goto(p, "unlock", loc[p])
       ELSE Goto(p, "put_write",
                 [loc[p] EXCEPT !.newMiners = GoAppend(miners, loc[p].arg),
                                !.addrBytes = Marshal(GoAppend(miners, loc[p].arg))])
    /\ UNCHANGED <<miners, da, seqVars, lk>>

\* m.da.Put(actorKey, addrBytes), shared by Put, Set and Remove.
Write(p, here, onOK) ==
    \E ok \in BOOLEAN :
        /\ pc[p] = here
        /\ da' = dsPut(da, actorKey, loc[p].addrBytes, ok)
        /\ IF ok THEN Goto(p, onOK, [loc[p] EXCEPT !.putOK = TRUE])
           ELSE Goto(p, "unlock", [loc[p] EXCEPT !.putOK = FALSE, !.err = "err"])
        /\ UNCHANGED <<miners, seqVars, lk>>

\* m.miners = newMiner, and m.miners = newMiners of Remove.
Assign(p, here) ==
    /\ pc[p] = here
    /\ miners' = loc[p].newMiners
    /\ Goto(p, "unlock", loc[p])
    /\ UNCHANGED <<da, seqVars, lk>>

PutWrite(p) == Write(p, "put_write", "put_assign")

PutAssign(p) == Assign(p, "put_assign")

SetLock(p) == \E a \in Addrs : Acquire(p, "Set", InfoSealer(a), "set_merge")

\* The loop of Set up to json.Marshal: the record found is changed in place.
SetMerge(p) ==
    LET k == IndexOf(miners, loc[p].arg.Addr)
        merged == [miners EXCEPT !.elems[k] = SetFields(@, loc[p].arg)]
    IN /\ pc[p] = "set_merge"
       /\ IF k = 0
          THEN /\ Goto(p, "unlock", loc[p])
               /\ UNCHANGED miners
          ELSE /\ miners' = merged
               /\ Goto(p, "set_write", [loc[p] EXCEPT !.addrBytes = Marshal(merged)])
       /\ UNCHANGED <<da, seqVars, lk>>

SetWrite(p) == Write(p, "set_write", "unlock")

RemoveLock(p) ==
    \E addrs \in {l \in AddrLists : Len(l) <= 1} :
        Acquire(p, "Remove", addrs, "remove_filter")

\* The loop of Remove and json.Marshal(newMiners).
RemoveFilter(p) ==
    LET kept == SelectSeq(miners.elems,
                          LAMBDA miner : ~findAddress(miner.Addr, loc[p].arg))
        newMiners == IF kept = <<>> THEN NilSlice
                     ELSE [isNil |-> FALSE, elems |-> kept]
    IN /\ pc[p] = "remove_filter"
       /\ Goto(p, "remove_write",
               [loc[p] EXCEPT !.newMiners = newMiners, !.addrBytes = Marshal(newMiners)])
       /\ UNCHANGED <<miners, da, seqVars, lk>>

RemoveWrite(p) == Write(p, "remove_write", "remove_assign")

RemoveAssign(p) == Assign(p, "remove_assign")

\* Get, List and Count: lock, read the list, return.
ReadLock(p) ==
    \/ \E a \in Addrs : Acquire(p, "Get", a, "read")
    \/ Acquire(p, "List", <<>>, "read")
    \/ Acquire(p, "Count", <<>>, "read")

ReadList(p) ==
    /\ pc[p] = "read"
    /\ Goto(p, "unlock",
            [loc[p] EXCEPT !.ret =
                IF loc[p].op = "Get" THEN Get(miners, loc[p].arg)
                ELSE IF loc[p].op = "List" THEN List(miners)
                ELSE <<Count(miners)>>])
    /\ UNCHANGED <<miners, da, seqVars, lk>>

\* Has called from outside: range m.miners reads the slice, m.lk is not taken.
HasCall(p) ==
    \E a \in Addrs :
        /\ pc[p] = "idle"
        /\ Goto(p, "has_scan", [Local("Has", a) EXCEPT !.newMiners = miners])
        /\ UNCHANGED <<miners, da, seqVars, lk>>

HasScan(p) ==
    /\ pc[p] = "has_scan"
    /\ Goto(p, "done", [loc[p] EXCEPT !.ret = <<Has(loc[p].newMiners, loc[p].arg)>>,
                                     !.newMiners = NilSlice])
    /\ UNCHANGED <<miners, da, seqVars, lk>>

\* Default: m.da.Get(defaultKey); m.lk is not taken anywhere in it.
DefaultGet(p) ==
    \E getOK \in BOOLEAN :
        LET bytes == dsGet(da, defaultKey)
        IN /\ pc[p] = "idle"
           /\ getOK \/ bytes # <<>>
           /\ IF getOK /\ bytes # <<>>
              THEN Goto(p, "done",
                        [Local("Default", <<>>) EXCEPT !.ret = <<AddrFromBytes(bytes[1])>>])
              ELSE Goto(p, "default_len", Local("Default", <<>>))
           /\ UNCHANGED <<miners, da, seqVars, lk>>

\* if len(m.miners) == 0 { return address.Undef, ErrNoDefault }
DefaultLen(p) ==
    /\ pc[p] = "default_len"
    /\ IF Len(miners.elems) = 0
       THEN Goto(p, "done", [loc[p] EXCEPT !.ret = <<Undef>>, !.err = "ErrNoDefault"])
       ELSE Goto(p, "default_set", loc[p])
    /\ UNCHANGED <<miners, da, seqVars, lk>>

\* err = m.SetDefault(m.miners[0].Addr): indexing an empty slice panics.
DefaultSet(p) ==
    \E ok \in BOOLEAN :
        /\ pc[p] = "default_set"
        /\ IF Len(miners.elems) = 0
           THEN /\ ok
                /\ Goto(p, "panic", loc[p])
                /\ UNCHANGED da
           ELSE /\ da' = SetDefault(da, miners.elems[1].Addr, ok).da
                /\ IF ok
                   THEN Goto(p, "default_return",
                             [loc[p] EXCEPT !.addrBytes = AddrBytes(miners.elems[1].Addr)])
                   ELSE Goto(p, "done", [loc[p] EXCEPT !.ret = <<Undef>>, !.err = "err",
                                                       !.putOK = FALSE])
        /\ UNCHANGED <<miners, seqVars, lk>>

\* return m.miners[0].Addr, nil: the slice is read again.
DefaultReturn(p) ==
    /\ pc[p] = "default_return"
    /\ IF Len(miners.elems) = 0
       THEN Goto(p, "panic", loc[p])
       ELSE Goto(p, "done", [loc[p] EXCEPT !.ret = <<miners.elems[1].Addr>>])
    /\ UNCHANGED <<miners, da, seqVars, lk>>

\* Concurrent callers of Put.
PutStep(p) ==
    \/ PutLock(p) \/ PutHas(p) \/ PutWrite(p) \/ PutAssign(p) \/ Unlock(p)

NextPuts == \E p \in Procs : Enter(p) \/ PutStep(p)

SpecPuts == Init /\ [][NextPuts]_vars

\* The steps of Put, Set, Remove, Get, List and Count after m.lk.Lock().
LockedTail(p) ==
    \/ PutHas(p) \/ PutWrite(p) \/ PutAssign(p)
    \/ SetMerge(p) \/ SetWrite(p)
    \/ RemoveFilter(p) \/ RemoveWrite(p) \/ RemoveAssign(p)
    \/ ReadList(p)
    \/ Unlock(p)

LockedStep(p) ==
    \/ PutLock(p) \/ SetLock(p) \/ RemoveLock(p) \/ ReadLock(p)
    \/ LockedTail(p)

\* The address the callers of SpecLive pass to Put, Set and Get.
LiveAddr == 1

\* m.lk.Lock() returns to a caller of one of the six methods that take m.lk.
LiveLock(p) ==
    \/ Acquire(p, "Put", InfoAll(LiveAddr), "put_has")
    \/ Acquire(p, "Set", InfoSealer(LiveAddr), "set_merge")
    \/ Acquire(p, "Remove", <<NumAddr>>, "remove_filter")
    \/ Acquire(p, "Get", LiveAddr, "read")
    \/ Acquire(p, "List", <<>>, "read")
    \/ Acquire(p, "Count", <<>>, "read")

LiveStep(p) == LiveLock(p) \/ LockedTail(p)

NextLive == \E p \in Procs : Enter(p) \/ LiveStep(p)

\* Every caller that can take a step takes one: the Go scheduler runs every
\* runnable goroutine, and a sync.Mutex that is free is handed to a waiter.
SpecLive ==
    /\ Init
    /\ [][NextLive]_vars
    /\ \A p \in Procs : WF_vars(LiveStep(p))

\* Concurrent callers of every method of the MinerManager.
UnlockedStep(p) ==
    \/ HasCall(p) \/ HasScan(p)
    \/ DefaultGet(p) \/ DefaultLen(p) \/ DefaultSet(p) \/ DefaultReturn(p)

NextConcurrent == \E p \in Procs : Enter(p) \/ LockedStep(p) \/ UnlockedStep(p)

SpecConcurrent == Init /\ [][NextConcurrent]_vars

----------------------------------------------------------------------------
\* Properties of the calls

Mutating == {"Put", "Set", "Remove"}

\* The record list a fresh MinerManager reads from the store d.
StoredIn(d) == List(NewMinerManger(d))

SameAddr(a, b) == AddrString(a) = AddrString(b)

\* Reference merge of update u into the list L.
RefField(old, new) == IF new = "" THEN old ELSE new

RefMerge(L, u) ==
    [i \in 1..Len(L) |->
        IF SameAddr(L[i].Addr, u.Addr)
        THEN MinerInfo(L[i].Addr, L[i].Id, L[i].Name,
                       RefField(L[i].Sealer.ListenAPI, u.Sealer.ListenAPI),
                       RefField(L[i].Sealer.Token, u.Sealer.Token),
                       RefField(L[i].Wallet.ListenAPI, u.Wallet.ListenAPI),
                       RefField(L[i].Wallet.Token, u.Wallet.Token))
        ELSE L[i]]

\* Whether address a is one of the addresses of the list S.
InList(a, S) == \E i \in 1..Len(S) : SameAddr(S[i], a)

Range(L) == {L[i] : i \in 1..Len(L)}

\* C1: the in-memory list never holds two records whose addresses have the
\* same canonical string.
C1_NoDuplicateAddress ==
    \A i, j \in 1..Count(miners) :
        i # j => ~SameAddr(miners.elems[i].Addr, miners.elems[j].Addr)

\* A Put of a registered address has been made on a list of two or more.
C1_Witness ==
    /\ last.op = "Put"
    /\ Has(last.pre, last.arg.Addr)
    /\ Count(miners) >= 2

\* C2: when a Put, Set or Remove that wrote to the store returns nil, the
\* list stored under miner-actors is the in-memory list.
C2_StoreEqualsMemory ==
    (last.op \in Mutating /\ last.wrote /\ last.err = "nil")
        => /\ dsGet(da, actorKey) # <<>>
           /\ StoredIn(da) = List(miners)

\* A call succeeded from a state where store and memory differed.
C2_Witness ==
    /\ last.op \in Mutating /\ last.wrote /\ last.err = "nil"
    /\ StoredIn(last.preDa) # List(last.pre)
    /\ Count(miners) >= 1

\* C3: when the store write of a Put, Set or Remove fails, the in-memory
\* list is the list before the call, as List, Get, Has and Count show it.
C3_FailedWriteNotInMemory ==
    (last.op \in Mutating /\ last.wrote /\ ~last.putOK)
        => /\ List(miners) = List(last.pre)
           /\ Count(miners) = Count(last.pre)
           /\ \A a \in Addrs : /\ Has(miners, a) = Has(last.pre, a)
                               /\ Get(miners, a) = Get(last.pre, a)

\* C4: Put of a registered address returns nil, does not write, and leaves
\* list and store as they were, with one record for the address.
C4_PutExistingNoOp ==
    (last.op = "Put" /\ Has(last.pre, last.arg.Addr))
        => /\ last.err = "nil"
           /\ ~last.wrote
           /\ miners = last.pre
           /\ da = last.preDa
           /\ Cardinality({i \in 1..Count(miners) :
                              SameAddr(miners.elems[i].Addr, last.arg.Addr)}) = 1

\* The second Put of a record whose first Put made the list.
C4_Witness ==
    /\ last.op = "Put"
    /\ List(last.pre) = <<last.arg>>
    /\ calls = 2

\* C5: Put of an unregistered address: a failed write returns an error and
\* leaves the list; a successful one appends the record as the last element.
C5_PutNew ==
    (last.op = "Put" /\ ~Has(last.pre, last.arg.Addr))
        => /\ last.wrote
           /\ IF last.putOK
              THEN /\ last.err = "nil"
                   /\ List(miners) = Append(List(last.pre), last.arg)
              ELSE /\ last.err = "err"
                   /\ miners = last.pre

\* A Put of a new address failed on a list that held records.
C5_Witness ==
    /\ last.op = "Put"
    /\ ~Has(last.pre, last.arg.Addr)
    /\ ~last.putOK
    /\ Count(last.pre) >= 1

\* C6: Set on a registered address changes the list as the reference merge
\* does: a non-empty field of u replaces, an empty one keeps; address, id,
\* name, the other records, the count and the order stay.
C6_SetMerges ==
    (last.op = "Set" /\ Has(last.pre, last.arg.Addr))
        => List(miners) = RefMerge(List(last.pre), last.arg)

\* A Set that replaced one token, kept another against an empty one, and
\* carried a different id, on a list of two or more.
C6_Witness ==
    /\ last.op = "Set"
    /\ Has(last.pre, last.arg.Addr)
    /\ Count(last.pre) >= 2
    /\ LET old == Get(last.pre, last.arg.Addr)[1]
       IN /\ old.Sealer.Token # "" /\ last.arg.Sealer.Token # ""
          /\ old.Sealer.Token # last.arg.Sealer.Token
          /\ old.Wallet.Token # "" /\ last.arg.Wallet.Token = ""
          /\ old.Id # last.arg.Id

\* C7: Set of an unregistered address returns nil, leaves the list, and
\* writes nothing: neither key of the store changes.
C7_SetMissingNoOp ==
    (last.op = "Set" /\ ~Has(last.pre, last.arg.Addr))
        => /\ last.err = "nil"
           /\ miners = last.pre
           /\ ~last.wrote
           /\ da = last.preDa

\* A Set of an unregistered address was made on a list that held records.
C7_Witness ==
    /\ last.op = "Set"
    /\ ~Has(last.pre, last.arg.Addr)
    /\ Count(last.pre) >= 1

\* C8: Set on a registered address whose write fails returns the error, the
\* record keeps the merged values, and the store keeps what it held.
C8_SetFailedKeepsMerge ==
    (last.op = "Set" /\ Has(last.pre, last.arg.Addr) /\ ~last.putOK)
        => /\ last.err = "err"
           /\ Get(miners, last.arg.Addr)
                = Get([isNil |-> FALSE,
                       elems |-> RefMerge(List(last.pre), last.arg)], last.arg.Addr)
           /\ da = last.preDa

\* After a failed Set the in-memory list differs from the stored one, which
\* is still the list before the call.
C8_Witness ==
    /\ last.op = "Set" /\ Has(last.pre, last.arg.Addr) /\ ~last.putOK
    /\ StoredIn(da) = List(last.pre)
    /\ List(miners) # StoredIn(da)

\* C9: a successful Remove(S) leaves the records whose address is not in S,
\* in their order, in memory and in the store.
C9_RemoveKeepsOthers ==
    (last.op = "Remove" /\ last.err = "nil")
        => /\ List(miners)
                = SelectSeq(List(last.pre), LAMBDA r : ~InList(r.Addr, last.arg))
           /\ StoredIn(da) = List(miners)

\* C10: Remove(S) with no address of S registered returns nil and changes
\* neither the in-memory list nor the set of records stored.
C10_RemoveAbsentNoOp ==
    (/\ last.op = "Remove"
     /\ last.putOK
     /\ \A i \in 1..Len(last.arg) : ~Has(last.pre, last.arg[i]))
        => /\ last.err = "nil"
           /\ List(miners) = List(last.pre)
           /\ Range(StoredIn(da)) = Range(StoredIn(last.preDa))

\* The list Remove computes as newMiners from the state before the last call.
NewMinersOfLast == List(Remove(last.pre, last.preDa, last.arg, TRUE).miners)

\* C11 as stated: when the write of Remove fails, the call returns the error
\* and the in-memory list is swapped to the survivors.
C11_RemoveFailedSwaps ==
    (last.op = "Remove" /\ ~last.putOK)
        => /\ last.err = "err"
           /\ List(miners) = NewMinersOfLast

\* C11 as amended: when the write of Remove fails, the call returns the
\* error and the in-memory list and the store are as before the call.
C11_RemoveFailedLeavesList ==
    (last.op = "Remove" /\ ~last.putOK)
        => /\ last.err = "err"
           /\ miners = last.pre
           /\ da = last.preDa

\* A Remove that would have dropped records failed.
C11_Witness ==
    /\ last.op = "Remove" /\ ~last.putOK
    /\ NewMinersOfLast # List(last.pre)
    /\ Count(last.pre) >= 2

\* C17: while every Put, Set and Remove so far returned nil, a fresh
\* MinerManager on the same store reads the in-memory list.
C17_ReopenGivesList ==
    ~failed => StoredIn(da) = List(miners)

\* Two successful calls, the last a Remove that emptied the list.
C17_Witness ==
    /\ ~failed
    /\ calls >= 2
    /\ last.op = "Remove"
    /\ Count(last.pre) >= 1
    /\ Count(miners) = 0
    /\ StoredIn(da) = <<>>

\* The address stored under default-actor in d, as a sequence of at most one.
StoredDefault(d) ==
    IF dsGet(d, defaultKey) = <<>> THEN <<>>
    ELSE <<AddrFromBytes(dsGet(d, defaultKey)[1])>>

\* C12: with no default stored and a record in the list, Default returns the
\* first record's address and stores it; from then on the address stays
\* stored and every Default returns it, whatever Put, Set and Remove do to
\* the list (the store calls of Default working, no SetDefault in between).
C12_DefaultResolvesOnce ==
    /\ (/\ last.op = "Default"
        /\ dsGet(last.preDa, defaultKey) = <<>>
        /\ Count(last.pre) >= 1
        /\ last.putOK)
          => /\ last.err = "nil"
             /\ last.ret = last.pre.elems[1].Addr
             /\ dsGet(da, defaultKey) = <<AddrBytes(last.ret)>>
             /\ resolved = <<last.ret>>
    /\ resolved # <<>>
          => /\ StoredDefault(da) = resolved
             /\ last.op = "Default" => (last.err = "nil" /\ <<last.ret>> = resolved)

\* A Default returned the address resolved earlier although the list no
\* longer starts with it.
C12_Witness ==
    /\ last.op = "Default"
    /\ dsGet(last.preDa, defaultKey) # <<>>
    /\ resolved = <<last.ret>>
    /\ Count(miners) >= 1
    /\ miners.elems[1].Addr # last.ret

\* C13: Default with no record and no default stored fails with
\* ErrNoDefault, returns Undef, and writes nothing.
C13_DefaultEmpty ==
    (/\ last.op = "Default"
     /\ Count(last.pre) = 0
     /\ dsGet(last.preDa, defaultKey) = <<>>)
        => /\ last.err = "ErrNoDefault"
           /\ last.ret = Undef
           /\ ~last.wrote
           /\ da = last.preDa

\* Default was called after the list had been emptied.
C13_Witness ==
    /\ last.op = "Default"
    /\ Count(last.pre) = 0
    /\ dsGet(last.preDa, defaultKey) = <<>>
    /\ last.prev.op = "Remove"

\* C18: a SetDefault(a) whose write works stores a, whether or not a is
\* registered or a default was stored, and changes neither the list nor the
\* records stored; a Default that follows it returns a.
C18_SetDefaultOverwrites ==
    /\ (last.op = "SetDefault" /\ last.putOK)
          => /\ last.err = "nil"
             /\ dsGet(da, defaultKey) = <<AddrBytes(last.arg)>>
             /\ miners = last.pre
             /\ dsGet(da, actorKey) = dsGet(last.preDa, actorKey)
    /\ (/\ last.op = "Default" /\ last.getOK
        /\ last.prev.op = "SetDefault" /\ last.prev.err = "nil")
          => /\ last.err = "nil"
             /\ last.ret = last.prev.arg
             /\ miners = last.pre

\* A Default returned an unregistered address that SetDefault had stored
\* over another one.
C18_Witness ==
    /\ last.op = "Default" /\ last.getOK
    /\ last.prev.op = "SetDefault" /\ last.prev.err = "nil"
    /\ last.ret = last.prev.arg
    /\ Count(miners) >= 1
    /\ ~Has(miners, last.ret)
    /\ calls >= 3

\* C19: Default leaves a stored default as it is, also when its store read
\* fails.
C19_DefaultKeepsStored ==
    (last.op = "Default" /\ dsGet(last.preDa, defaultKey) # <<>>)
        => dsGet(da, defaultKey) = dsGet(last.preDa, defaultKey)

----------------------------------------------------------------------------
\* Properties of concurrent callers

\* The list NewMinerManger loaded, before any call.
InitialList == NewMinerManger(last.preDa)

Returned(p) == pc[p] = "done"

\* Every caller ran Put and returned; the addresses were pairwise distinct and
\* not registered at the start, and every write to the store succeeded.
DistinctPutsReturned ==
    /\ \A p \in Procs : Returned(p) /\ loc[p].op = "Put" /\ loc[p].putOK
    /\ \A p \in Procs : ~Has(InitialList, loc[p].arg.Addr)
    /\ \A p, q \in Procs : p # q => loc[p].arg.Addr # loc[q].arg.Addr

\* C14: when N callers run Put concurrently with pairwise distinct addresses that
\* are not registered, and the writes succeed, then under every interleaving all
\* N calls return nil, Count() is the initial count plus N, every added address
\* is in the list, and the stored blob holds the whole list: no update is lost.
C14_ConcurrentPutsAllKept ==
    DistinctPutsReturned =>
        /\ \A p \in Procs : loc[p].err = "nil"
        /\ Count(miners) = Count(InitialList) + NumProcs
        /\ \A p \in Procs : Has(miners, loc[p].arg.Addr)
        /\ StoredIn(da) = List(miners)
        /\ \A p \in Procs : loc[p].arg \in Range(StoredIn(da))

C14_Witness ==
    /\ DistinctPutsReturned
    /\ Count(miners) = Count(InitialList) + NumProcs

\* C15: Default does not race with a concurrent change of the list: no Default
\* indexes an empty list, and a Default that wrote default-actor returns the
\* address it wrote.
C15_DefaultDoesNotRace ==
    \A p \in Procs :
        /\ pc[p] # "panic"
        /\ (Returned(p) /\ loc[p].op = "Default" /\ loc[p].addrBytes # <<>>)
               => AddrBytes(loc[p].ret[1]) = loc[p].addrBytes

\* The positions at which a call of Put, Set, Remove, Get, List, Count or Has is
\* between its first and its last access to m.miners.
ListAccess ==
    {"put_has", "put_write", "put_assign", "set_merge", "set_write",
     "remove_filter", "remove_write", "remove_assign", "read", "has_scan"}

InListAccess(p) == pc[p] \in ListAccess

\* C16: every call from outside of Put, Set, Remove, Get, List, Count or Has holds
\* m.lk for its whole access to the list, and no two such calls are inside
\* their list access at the same time.
C16_ListAccessUnderLock ==
    /\ \A p \in Procs : InListAccess(p) => lk = p
    /\ \A p, q \in Procs : (InListAccess(p) /\ InListAccess(q)) => p = q

\* A caller that has returned does not hold m.lk.
LockReleased == \A p \in Procs : Returned(p) => lk # p

\* C20: no call blocks forever on m.lk. Under fair scheduling every call of Put,
\* Set, Remove, Get, List or Count that waits for the lock returns, and it has
\* released the lock when it returns, on every return path.
C20_EveryCallReturns ==
    /\ []LockReleased
    /\ \A p \in Procs : (pc[p] = "lock") ~> Returned(p)

\* Every caller has returned: one through a write error, one from Put.
C20_Witness ==
    /\ \A p \in Procs : Returned(p) /\ lk # p
    /\ \E p, q \in Procs :
          /\ p # q
          /\ loc[p].err = "err"
          /\ loc[q].op = "Put" /\ loc[q].err = "nil" /\ Has(InitialList, loc[q].arg.Addr)

============================================================================
